---- MODULE Spec2Model ----
(***************************************************************************)
(* A model of the E20 processor simulator.  Two programs live in the       *)
(* repository: e20_sim.cpp (the plain simulator) and e20_sim_cache.cpp     *)
(* (the same engine driving a one- or two-level cache model).  Both are    *)
(* modelled here, each translated from its own source file, and run side   *)
(* by side on the same loaded program.                                     *)
(***************************************************************************)
EXTENDS Integers, Sequences, FiniteSets, TLC

\* ------------------------------------------------------------------------
\* Program constants
\* ------------------------------------------------------------------------
NUM_REGS == 8
MEM_SIZE == 8192
REG_SIZE == 65536
\* Block's default member initialiser: uint16_t tag = -1
EmptyTag == 65535
\* mask or-ed into a negative 7-bit immediate by sign_extend7_func
SignMask == 65408

\* ------------------------------------------------------------------------
\* Bounds of the model
\* ------------------------------------------------------------------------
\* longest program image loaded into memory
MaxProgLen == 3
\* number of loop iterations explored per run
MaxSteps == 6
\* longest program image in the runs under several cache configurations
MaxRunLen == 3
\* number of calls of cache_func explored from a fresh cache
MaxAccesses == 5
\* number of calls of cache_func explored where all of memory is examined
MaxProbes == 2
\* longest program image in the runs of arithmetic on large words
MaxArithLen == 3
\* most lines of a file given to load_machine_code
MaxFileLen == 3
\* longest program image in the runs of branches
MaxBranchLen == 3

VARIABLES
    pc,             \* e20_sim.cpp: uint16_t pc
    regs_arr,       \* e20_sim.cpp: uint16_t regs_arr[NUM_REGS]
    memory_arr,     \* e20_sim.cpp: uint16_t memory_arr[MEM_SIZE]
    halt,           \* e20_sim.cpp: bool halt
    cpc,            \* e20_sim_cache.cpp: pc of run_e20_simulator
    cregs_arr,      \* e20_sim_cache.cpp: regs_arr
    cmemory_arr,    \* e20_sim_cache.cpp: memory_arr
    cstate,         \* e20_sim_cache.cpp: where that process is
    parts,          \* e20_sim_cache.cpp: vector<int> parts (the cache configuration)
    a_cache,        \* e20_sim_cache.cpp: Cache a_cache (levels_vec)
    log,            \* e20_sim_cache.cpp: the lines print_log_entry has written
    steps,          \* iterations of the simulation loop taken so far
    last,           \* what the latest iteration of each loop fetched and from where
    loader,         \* load_machine_code: the lines of the file, the next one to
                    \* read, size_t expectedaddr, and how the loading stands
    printed,        \* what print_state has written, per program
    returned        \* whether main has returned, per program

vars == <<pc, regs_arr, memory_arr, halt, cpc, cregs_arr, cmemory_arr, cstate,
          parts, a_cache, log, steps, last, loader, printed, returned>>

\* ------------------------------------------------------------------------
\* 16-bit arithmetic
\* ------------------------------------------------------------------------
\* the conversion of an int result to uint16_t
U16(x) == x % REG_SIZE

RECURSIVE BitAnd(_, _, _)
\* a & b on the low n bits
BitAnd(a, b, n) ==
    IF n = 0 THEN 0
    ELSE (IF a % 2 = 1 /\ b % 2 = 1 THEN 1 ELSE 0) + 2 * BitAnd(a \div 2, b \div 2, n - 1)

RECURSIVE BitOr(_, _, _)
\* a | b on the low n bits
BitOr(a, b, n) ==
    IF n = 0 THEN 0
    ELSE (IF a % 2 = 1 \/ b % 2 = 1 THEN 1 ELSE 0) + 2 * BitOr(a \div 2, b \div 2, n - 1)

\* ------------------------------------------------------------------------
\* Instruction decoder
\* ------------------------------------------------------------------------
Opcode(instruction) == instruction \div 8192
Bits10_12(instruction) == (instruction \div 1024) % 8
Bits7_9(instruction) == (instruction \div 128) % 8
Bits4_6(instruction) == (instruction \div 16) % 8
Bits0_3(instruction) == instruction % 16
Bits0_12(instruction) == instruction % 8192

\* a slip: the immediate left as the seven bits it is read as
SignExtendLeftOut(imm7) == imm7

\* sign_extend7_func: or the upper nine bits in when bit 6 is set
sign_extend7_func(imm7) ==
    IF imm7 \div 64 = 1 THEN BitOr(imm7, SignMask, 16) ELSE imm7

\* bits0_6 after the call of sign_extend7_func
Bits0_6(instruction) == sign_extend7_func(instruction % 128)

\* Instruction words, laid out as the decoder reads them
EncR(a, b, d, sel) == a * 1024 + b * 128 + d * 16 + sel
EncI(op, rs, rt, imm7) == op * 8192 + rs * 1024 + rt * 128 + imm7
EncJ(op, imm13) == op * 8192 + imm13

\* ------------------------------------------------------------------------
\* Memory.  memory_arr is an array of MEM_SIZE words, every one of them set
\* to 0 before the program is loaded.  It is kept here as the function from
\* the addresses that hold a word other than 0 to those words: every address
\* of 0..MEM_SIZE-1 can be read and written, and two memories are equal
\* exactly when they hold the same word at every address.
\* ------------------------------------------------------------------------
\* memory_arr[a]
MemRead(mem, a) == IF a \in DOMAIN mem THEN mem[a] ELSE 0

\* memory_arr[a] = v
MemWrite(mem, a, v) ==
    IF v = 0
    THEN [x \in (DOMAIN mem) \ {a} |-> mem[x]]
    ELSE [x \in (DOMAIN mem) \cup {a} |-> IF x = a THEN v ELSE mem[x]]

\* ------------------------------------------------------------------------
\* Arithmetic and comparisons of the execution engine
\* ------------------------------------------------------------------------
\* a slip: the assignment regs_arr[0] = 0 left out
ZeroRegLeftOut(regs) == regs

\* regs_arr[0] = 0
ZeroReg(regs) == [regs EXCEPT ![0] = 0]

\* a slip: the sum kept as the int it is computed in
AluAddNoWrap(x, y) == x + y

\* regs_arr[a] + regs_arr[b], stored in a uint16_t
AluAdd(x, y) == U16(x + y)
\* regs_arr[a] - regs_arr[b], stored in a uint16_t
AluSub(x, y) == U16(x - y)
\* regs_arr[a] | regs_arr[b]
AluOr(x, y) == BitOr(x, y, 16)
\* regs_arr[a] & regs_arr[b]
AluAnd(x, y) == BitAnd(x, y, 16)
\* a slip: the words compared as signed numbers of 16 bits
AluLessSigned(x, y) ==
    IF (IF x >= 32768 THEN x - REG_SIZE ELSE x) < (IF y >= 32768 THEN y - REG_SIZE ELSE y)
    THEN 1 ELSE 0

\* the comparison of slt and slti, on uint16_t values
AluLess(x, y) == IF x < y THEN 1 ELSE 0
\* pc += 1 on a uint16_t
PcInc(p) == U16(p + 1)
\* a slip: the sum used as the address without % MEM_SIZE
MemAddressNoWrap(base, imm) == base + imm

\* (regs_arr[rs] + bits0_6) % MEM_SIZE, stored in a uint16_t
MemAddress(base, imm) == U16((base + imm) % MEM_SIZE)
\* a slip: the jump target compared with the fetch index, not with the pc
SelfJumpByIndex(p, target) == p % MEM_SIZE = target

\* pc == bits0_12, the test of the jump instruction
SelfJump(p, target) == p = target

\* a slip: a selector that names no operation is stepped over
NoOperationSkipped(s) == [s EXCEPT !.regs = ZeroReg(s.regs), !.pc = PcInc(s.pc)]

\* opcode 0 with a selector none of the branches tests for: only
\* regs_arr[0] = 0 runs
NoOperation(s) == [s EXCEPT !.regs = ZeroReg(s.regs)]

\* ------------------------------------------------------------------------
\* e20_sim.cpp: one iteration of the loop of main.
\* s is [pc, regs, mem, halt].
\* ------------------------------------------------------------------------
Main_RType(s, instruction) ==
    LET a == Bits10_12(instruction)
        b == Bits7_9(instruction)
        d == Bits4_6(instruction)
        sel == Bits0_3(instruction)
    IN  IF sel = 0 THEN
            [s EXCEPT !.regs = ZeroReg([s.regs EXCEPT ![d] = AluAdd(s.regs[a], s.regs[b])]),
                      !.pc = PcInc(s.pc)]
        ELSE IF sel = 1 THEN
            [s EXCEPT !.regs = ZeroReg([s.regs EXCEPT ![d] = AluSub(s.regs[a], s.regs[b])]),
                      !.pc = PcInc(s.pc)]
        ELSE IF sel = 2 THEN
            [s EXCEPT !.regs = ZeroReg([s.regs EXCEPT ![d] = AluOr(s.regs[a], s.regs[b])]),
                      !.pc = PcInc(s.pc)]
        ELSE IF sel = 3 THEN
            [s EXCEPT !.regs = ZeroReg([s.regs EXCEPT ![d] = AluAnd(s.regs[a], s.regs[b])]),
                      !.pc = PcInc(s.pc)]
        ELSE IF sel = 4 THEN
            [s EXCEPT !.regs = ZeroReg([s.regs EXCEPT ![d] = AluLess(s.regs[a], s.regs[b])]),
                      !.pc = PcInc(s.pc)]
        ELSE IF sel = 8 THEN
            [s EXCEPT !.regs = ZeroReg(s.regs), !.pc = s.regs[a]]
        ELSE
            NoOperation(s)

Main_Addi(s, instruction) ==
    LET rs == Bits10_12(instruction)
        rt == Bits7_9(instruction)
    IN  [s EXCEPT !.regs = ZeroReg([s.regs EXCEPT ![rt] = AluAdd(s.regs[rs], Bits0_6(instruction))]),
                  !.pc = PcInc(s.pc)]

Main_J(s, instruction) ==
    [s EXCEPT !.halt = IF SelfJump(s.pc, Bits0_12(instruction)) THEN TRUE ELSE s.halt,
              !.pc = Bits0_12(instruction)]

Main_Jal(s, instruction) ==
    [s EXCEPT !.regs = [s.regs EXCEPT ![7] = PcInc(s.pc)],
              !.pc = Bits0_12(instruction)]

\* a slip: the word read is cleared in memory
Main_LwClears(s, instruction) ==
    LET address == MemAddress(s.regs[Bits10_12(instruction)], Bits0_6(instruction))
    IN  [s EXCEPT !.regs = ZeroReg([s.regs EXCEPT ![Bits7_9(instruction)] = MemRead(s.mem, address)]),
                  !.mem = MemWrite(s.mem, address, 0),
                  !.pc = PcInc(s.pc)]

Main_Lw(s, instruction) ==
    LET address == MemAddress(s.regs[Bits10_12(instruction)], Bits0_6(instruction))
    IN  [s EXCEPT !.regs = ZeroReg([s.regs EXCEPT ![Bits7_9(instruction)] = MemRead(s.mem, address)]),
                  !.pc = PcInc(s.pc)]

Main_Sw(s, instruction) ==
    LET address == MemAddress(s.regs[Bits10_12(instruction)], Bits0_6(instruction))
    IN  [s EXCEPT !.mem = MemWrite(s.mem, address, s.regs[Bits7_9(instruction)]),
                  !.pc = PcInc(s.pc)]

\* a slip: a branch to its own address ends the loop, as a jump does
Main_JeqHalts(s, instruction) ==
    IF s.regs[Bits10_12(instruction)] = s.regs[Bits7_9(instruction)]
    THEN [s EXCEPT !.halt = IF U16(s.pc + 1 + Bits0_6(instruction)) = s.pc THEN TRUE ELSE s.halt,
                   !.pc = U16(s.pc + 1 + Bits0_6(instruction))]
    ELSE [s EXCEPT !.pc = PcInc(s.pc)]

Main_Jeq(s, instruction) ==
    IF s.regs[Bits10_12(instruction)] = s.regs[Bits7_9(instruction)]
    THEN [s EXCEPT !.pc = U16(s.pc + 1 + Bits0_6(instruction))]
    ELSE [s EXCEPT !.pc = PcInc(s.pc)]

Main_Slti(s, instruction) ==
    LET rs == Bits10_12(instruction)
        rt == Bits7_9(instruction)
    IN  [s EXCEPT !.regs = ZeroReg([s.regs EXCEPT ![rt] = AluLess(s.regs[rs], Bits0_6(instruction))]),
                  !.pc = PcInc(s.pc)]

\* a slip: the pc itself used as the index
FetchIndexRaw(p) == p

\* uint16_t index = pc % MEM_SIZE
FetchIndex(p) == p % MEM_SIZE

\* the body of while (!halt) in main
Main_Step(s) ==
    LET instruction == MemRead(s.mem, FetchIndex(s.pc))
        opcode == Opcode(instruction)
    IN  IF opcode = 0 THEN Main_RType(s, instruction)
        ELSE IF opcode = 1 THEN Main_Addi(s, instruction)
        ELSE IF opcode = 2 THEN Main_J(s, instruction)
        ELSE IF opcode = 3 THEN Main_Jal(s, instruction)
        ELSE IF opcode = 4 THEN Main_Lw(s, instruction)
        ELSE IF opcode = 5 THEN Main_Sw(s, instruction)
        ELSE IF opcode = 6 THEN Main_Jeq(s, instruction)
        ELSE Main_Slti(s, instruction)

\* ------------------------------------------------------------------------
\* e20_sim_cache.cpp: the cache model
\* ------------------------------------------------------------------------
\* a slip: the tag of a new block initialised to 0
BlockTagZero == [tag |-> 0]

\* struct Block: a tag, initialised to -1 in a uint16_t
Block == [tag |-> EmptyTag]

\* Level's constructor: num_of_rows rows of associativity default blocks
Level(cache_size, num_of_rows, associativity, blocksize) ==
    [rows_vec |-> [i \in 1..num_of_rows |->
                      [blocks_vec |-> [j \in 1..associativity |-> Block],
                       associativity |-> associativity]],
     blocksize |-> blocksize]

\* size / (assoc * blocksize), the integer division of main and of cache_func
LevelRows(size, assoc, blocksize) == size \div (assoc * blocksize)
\* a slip: the row taken from the address, not from the block
RowOfAddress(address, blocksize, rows) == address % rows

\* blockid = address / blocksize; row_num = blockid % rows
RowOf(address, blocksize, rows) == (address \div blocksize) % rows
\* a slip: the block taken for the tag, the division by the rows left out
TagOfBlockId(address, blocksize, rows) == address \div blocksize

\* blockid = address / blocksize; tag = blockid / rows
TagOf(address, blocksize, rows) == (address \div blocksize) \div rows

\* a slip: the scan never reports the tag
TagNeverFound(blocks_vec, tag) == FALSE

\* the scan of a row: whether some block carries the tag
TagFound(blocks_vec, tag) == \E i \in 1..Len(blocks_vec) : blocks_vec[i].tag = tag

\* the scan of a row: the first block that carries the tag (it breaks there)
TagIndex(blocks_vec, tag) ==
    CHOOSE i \in 1..Len(blocks_vec) :
        /\ blocks_vec[i].tag = tag
        /\ \A j \in 1..(i - 1) : blocks_vec[j].tag # tag

\* a slip: no block is erased before the push_back
EraseNothing(blocks_vec, i) == blocks_vec

\* blocks_vec.erase(blocks_vec.begin() + i), with i counted from 1 here
EraseAt(blocks_vec, i) ==
    [k \in 1..(Len(blocks_vec) - 1) |-> IF k < i THEN blocks_vec[k] ELSE blocks_vec[k + 1]]

\* a slip: for a tag not found the newest block is erased, not the oldest
UpdateRowEvictsNewest(blocks_vec, tag) ==
    IF TagFound(blocks_vec, tag)
    THEN Append(EraseAt(blocks_vec, TagIndex(blocks_vec, tag)), [tag |-> tag])
    ELSE Append(EraseAt(blocks_vec, Len(blocks_vec)), [tag |-> tag])

\* a slip: the block of a tag not found is put at the head of the row
UpdateRowInsertsAtHead(blocks_vec, tag) ==
    IF TagFound(blocks_vec, tag)
    THEN Append(EraseAt(blocks_vec, TagIndex(blocks_vec, tag)), [tag |-> tag])
    ELSE <<[tag |-> tag]>> \o EraseAt(blocks_vec, Len(blocks_vec))

\* a slip: a block found stays where it is, so that the row is a queue
UpdateRowNoRefresh(blocks_vec, tag) ==
    IF TagFound(blocks_vec, tag)
    THEN blocks_vec
    ELSE Append(EraseAt(blocks_vec, 1), [tag |-> tag])

\* the update of a row: erase the block found, or else the first one, and
\* push_back a block with the tag
UpdateRow(blocks_vec, tag) ==
    IF TagFound(blocks_vec, tag)
    THEN Append(EraseAt(blocks_vec, TagIndex(blocks_vec, tag)), [tag |-> tag])
    ELSE Append(EraseAt(blocks_vec, 1), [tag |-> tag])

\* the row row_num (counted from 0) of a level, its blocks replaced
WithRow(level, row_num, blocks_vec) ==
    [level EXCEPT !.rows_vec[row_num + 1].blocks_vec = blocks_vec]

\* a slip: a store leaves the row of L1 as it is
L1UpdateLoadsOnly(blocks_vec, tag, is_store_word) ==
    IF is_store_word THEN blocks_vec ELSE UpdateRow(blocks_vec, tag)

\* the update of the L1 row in cache_func: it stands outside every test of
\* is_store_word
L1Update(blocks_vec, tag, is_store_word) == UpdateRow(blocks_vec, tag)

\* a line written by print_log_entry
LogEntry(cache_name, status, p, addr, row) ==
    [cache_name |-> cache_name, status |-> status, pc |-> p, addr |-> addr, row |-> row]

\* "SW", "HIT" or "MISS", as cache_func chooses the status to print
LogStatus(is_store_word, tag_was_found) ==
    IF is_store_word THEN "SW" ELSE IF tag_was_found THEN "HIT" ELSE "MISS"

\* a slip: a store whose tag is in L1 is not passed on to L2
ProbesL2OnMissOnly(cache, l1tag_was_found, is_store_word) ==
    Len(cache.levels_vec) = 2 /\ ~l1tag_was_found

\* a slip: every call is passed on to L2
ProbesL2Always(cache, l1tag_was_found, is_store_word) ==
    Len(cache.levels_vec) = 2

\* a_cache.levels_vec.size() == 2 && (!l1tag_was_found || is_store_word)
ProbesL2(cache, l1tag_was_found, is_store_word) ==
    Len(cache.levels_vec) = 2 /\ (~l1tag_was_found \/ is_store_word)

\* Whether a call of cache_func divides by zero or indexes rows_vec outside
\* its size: the behaviour of the program is undefined from there on.
CacheFuncUndefined(address, cache, config) ==
    LET l1size == U16(config[1])
        l1assoc == U16(config[2])
        l1blocksize == U16(config[3])
        l1bad ==
            \/ l1assoc * l1blocksize = 0
            \/ LevelRows(l1size, l1assoc, l1blocksize) = 0
            \/ RowOf(address, l1blocksize, LevelRows(l1size, l1assoc, l1blocksize))
                   >= Len(cache.levels_vec[1].rows_vec)
        l2size == U16(config[4])
        l2assoc == U16(config[5])
        l2blocksize == U16(config[6])
        l2bad ==
            \/ l2assoc * l2blocksize = 0
            \/ LevelRows(l2size, l2assoc, l2blocksize) = 0
            \/ RowOf(address, l2blocksize, LevelRows(l2size, l2assoc, l2blocksize))
                   >= Len(cache.levels_vec[2].rows_vec)
    IN  IF Len(config) = 3 THEN l1bad ELSE l1bad \/ l2bad

\* cache_func: the new cache and the lines printed, for a call that is defined
cache_func(address, index, cache, config, is_store_word) ==
    LET l1size == U16(config[1])
        l1assoc == U16(config[2])
        l1blocksize == U16(config[3])
        l1rows == LevelRows(l1size, l1assoc, l1blocksize)
        l1row_num == RowOf(address, l1blocksize, l1rows)
        l1tag == TagOf(address, l1blocksize, l1rows)
        l1blocks == cache.levels_vec[1].rows_vec[l1row_num + 1].blocks_vec
        l1tag_was_found == TagFound(l1blocks, l1tag)
        l1line == LogEntry("L1", LogStatus(is_store_word, l1tag_was_found),
                           index, address, l1row_num)
        cache1 == [cache EXCEPT !.levels_vec[1] =
                       WithRow(@, l1row_num, L1Update(l1blocks, l1tag, is_store_word))]
    IN  IF ProbesL2(cache, l1tag_was_found, is_store_word)
        THEN
            LET l2size == U16(config[4])
                l2assoc == U16(config[5])
                l2blocksize == U16(config[6])
                l2rows == LevelRows(l2size, l2assoc, l2blocksize)
                l2row_num == RowOf(address, l2blocksize, l2rows)
                l2tag == TagOf(address, l2blocksize, l2rows)
                l2blocks == cache.levels_vec[2].rows_vec[l2row_num + 1].blocks_vec
                l2tag_was_found == TagFound(l2blocks, l2tag)
                l2line == LogEntry("L2", LogStatus(is_store_word, l2tag_was_found),
                                   index, address, l2row_num)
            IN  [cache |-> [cache1 EXCEPT !.levels_vec[2] =
                                WithRow(@, l2row_num, UpdateRow(l2blocks, l2tag))],
                 out |-> <<l1line, l2line>>]
        ELSE [cache |-> cache1, out |-> <<l1line>>]

\* ------------------------------------------------------------------------
\* e20_sim_cache.cpp: one iteration of the loop of run_e20_simulator.
\* c is [pc, regs, mem, halt, cache, config, log, undefined, call].
\* ------------------------------------------------------------------------
\* the arguments of a call of cache_func
CallOf(address, index, is_store_word) ==
    [address |-> address, index |-> index, is_store_word |-> is_store_word]

Run_RType(c, instruction) ==
    LET a == Bits10_12(instruction)
        b == Bits7_9(instruction)
        d == Bits4_6(instruction)
        sel == Bits0_3(instruction)
    IN  IF sel = 0 THEN
            [c EXCEPT !.regs = ZeroReg([c.regs EXCEPT ![d] = AluAdd(c.regs[a], c.regs[b])]),
                      !.pc = PcInc(c.pc)]
        ELSE IF sel = 1 THEN
            [c EXCEPT !.regs = ZeroReg([c.regs EXCEPT ![d] = AluSub(c.regs[a], c.regs[b])]),
                      !.pc = PcInc(c.pc)]
        ELSE IF sel = 2 THEN
            [c EXCEPT !.regs = ZeroReg([c.regs EXCEPT ![d] = AluOr(c.regs[a], c.regs[b])]),
                      !.pc = PcInc(c.pc)]
        ELSE IF sel = 3 THEN
            [c EXCEPT !.regs = ZeroReg([c.regs EXCEPT ![d] = AluAnd(c.regs[a], c.regs[b])]),
                      !.pc = PcInc(c.pc)]
        ELSE IF sel = 4 THEN
            [c EXCEPT !.regs = ZeroReg([c.regs EXCEPT ![d] = AluLess(c.regs[a], c.regs[b])]),
                      !.pc = PcInc(c.pc)]
        ELSE IF sel = 8 THEN
            [c EXCEPT !.regs = ZeroReg(c.regs), !.pc = c.regs[a]]
        ELSE
            NoOperation(c)

Run_Addi(c, instruction) ==
    LET rs == Bits10_12(instruction)
        rt == Bits7_9(instruction)
    IN  [c EXCEPT !.regs = ZeroReg([c.regs EXCEPT ![rt] = AluAdd(c.regs[rs], Bits0_6(instruction))]),
                  !.pc = PcInc(c.pc)]

Run_J(c, instruction) ==
    [c EXCEPT !.halt = IF SelfJump(c.pc, Bits0_12(instruction)) THEN TRUE ELSE c.halt,
              !.pc = Bits0_12(instruction)]

Run_Jal(c, instruction) ==
    [c EXCEPT !.regs = [c.regs EXCEPT ![7] = PcInc(c.pc)],
              !.pc = Bits0_12(instruction)]

Run_Lw(c, instruction) ==
    LET address == MemAddress(c.regs[Bits10_12(instruction)], Bits0_6(instruction))
    IN  IF CacheFuncUndefined(address, c.cache, c.config)
        THEN [c EXCEPT !.undefined = TRUE]
        ELSE LET r == cache_func(address, FetchIndex(c.pc), c.cache, c.config, FALSE)
             IN  [c EXCEPT !.call = CallOf(address, FetchIndex(c.pc), FALSE),
                           !.cache = r.cache,
                           !.log = c.log \o r.out,
                           !.regs = ZeroReg([c.regs EXCEPT ![Bits7_9(instruction)] = MemRead(c.mem, address)]),
                           !.pc = PcInc(c.pc)]

\* a slip: the store reaches the cache but not memory
Run_SwCacheOnly(c, instruction) ==
    LET address == MemAddress(c.regs[Bits10_12(instruction)], Bits0_6(instruction))
    IN  IF CacheFuncUndefined(address, c.cache, c.config)
        THEN [c EXCEPT !.undefined = TRUE]
        ELSE LET r == cache_func(address, FetchIndex(c.pc), c.cache, c.config, TRUE)
             IN  [c EXCEPT !.call = CallOf(address, FetchIndex(c.pc), TRUE),
                           !.cache = r.cache,
                           !.log = c.log \o r.out,
                           !.pc = PcInc(c.pc)]

Run_Sw(c, instruction) ==
    LET address == MemAddress(c.regs[Bits10_12(instruction)], Bits0_6(instruction))
    IN  IF CacheFuncUndefined(address, c.cache, c.config)
        THEN [c EXCEPT !.undefined = TRUE]
        ELSE LET r == cache_func(address, FetchIndex(c.pc), c.cache, c.config, TRUE)
             IN  [c EXCEPT !.call = CallOf(address, FetchIndex(c.pc), TRUE),
                           !.cache = r.cache,
                           !.log = c.log \o r.out,
                           !.mem = MemWrite(c.mem, address, c.regs[Bits7_9(instruction)]),
                           !.pc = PcInc(c.pc)]

Run_Jeq(c, instruction) ==
    IF c.regs[Bits10_12(instruction)] = c.regs[Bits7_9(instruction)]
    THEN [c EXCEPT !.pc = U16(c.pc + 1 + Bits0_6(instruction))]
    ELSE [c EXCEPT !.pc = PcInc(c.pc)]

Run_Slti(c, instruction) ==
    LET rs == Bits10_12(instruction)
        rt == Bits7_9(instruction)
    IN  [c EXCEPT !.regs = ZeroReg([c.regs EXCEPT ![rt] = AluLess(c.regs[rs], Bits0_6(instruction))]),
                  !.pc = PcInc(c.pc)]

\* the body of while (!halt) in run_e20_simulator
Run_Step(c) ==
    LET instruction == MemRead(c.mem, FetchIndex(c.pc))
        opcode == Opcode(instruction)
    IN  IF opcode = 0 THEN Run_RType(c, instruction)
        ELSE IF opcode = 1 THEN Run_Addi(c, instruction)
        ELSE IF opcode = 2 THEN Run_J(c, instruction)
        ELSE IF opcode = 3 THEN Run_Jal(c, instruction)
        ELSE IF opcode = 4 THEN Run_Lw(c, instruction)
        ELSE IF opcode = 5 THEN Run_Sw(c, instruction)
        ELSE IF opcode = 6 THEN Run_Jeq(c, instruction)
        ELSE Run_Slti(c, instruction)

\* ------------------------------------------------------------------------
\* e20_sim_cache.cpp: main, from the parsed cache configuration to the call
\* of run_e20_simulator
\* ------------------------------------------------------------------------
\* the levels main builds for a configuration of three or of six numbers
MakeCache(config) ==
    IF Len(config) = 3 THEN
        [levels_vec |-> <<Level(config[1], LevelRows(config[1], config[2], config[3]),
                                config[2], config[3])>>]
    ELSE
        [levels_vec |-> <<Level(config[1], LevelRows(config[1], config[2], config[3]),
                                config[2], config[3]),
                          Level(config[4], LevelRows(config[4], config[5], config[6]),
                                config[5], config[6])>>]

\* where main stands once the configuration is read: it returns 0 at once
\* without a --cache argument, divides by zero when an associativity or a
\* block size is 0, runs the simulator for three or six numbers and
\* reports any other count
StartState(config) ==
    IF Len(config) = 0 THEN "exited"
    ELSE IF Len(config) = 3 THEN
        IF config[2] * config[3] = 0 THEN "undefined" ELSE "running"
    ELSE IF Len(config) = 6 THEN
        IF config[2] * config[3] = 0 \/ config[5] * config[6] = 0
        THEN "undefined" ELSE "running"
    ELSE "config_error"

NoCache == [levels_vec |-> <<>>]

\* ------------------------------------------------------------------------
\* The loaded program
\* ------------------------------------------------------------------------
\* memory after load_machine_code has read a well-formed image: the words
\* of the image from address 0 on, 0 elsewhere
LoadImage(image) ==
    [a \in {x \in 0..(Len(image) - 1) : x < MEM_SIZE /\ image[x + 1] # 0} |-> image[a + 1]]

\* the program images of at most n words over a pool of instruction words
Images(pool, n) == UNION {[1..k -> pool] : k \in 1..n}

NoCall == [address |-> -1, index |-> -1, is_store_word |-> FALSE]

NoFetch == [pc |-> 0, instruction |-> -1, regs |-> [i \in 0..(NUM_REGS - 1) |-> 0]]

\* A line of the file as load_machine_code takes it: one the regular
\* expression does not match; one it matches whose digits stoi cannot turn
\* into a number; or one that gives an address and a word
LineNoMatch == [kind |-> "nomatch", addr |-> 0, instr |-> 0]
LineBadNumber == [kind |-> "badnumber", addr |-> 0, instr |-> 0]
LineEntry(addr, instr) == [kind |-> "entry", addr |-> addr, instr |-> instr]

\* load_machine_code has read the whole file, the lines of a well-formed
\* image
Loaded(image) ==
    [lines |-> [i \in 1..Len(image) |-> LineEntry(i - 1, image[i])],
     next |-> Len(image) + 1, expectedaddr |-> Len(image), zeros |-> 0,
     status |-> "loaded"]

\* a slip: the word written before the address is tested
load_line_writes_first(ld, mem, line) ==
    IF line.kind = "nomatch" THEN
        [ld |-> [ld EXCEPT !.status = "load_error"], mem |-> mem]
    ELSE IF line.kind = "badnumber" THEN
        [ld |-> [ld EXCEPT !.status = "terminated"], mem |-> mem]
    ELSE IF line.addr # ld.expectedaddr \/ line.addr >= MEM_SIZE THEN
        [ld |-> [ld EXCEPT !.status = "load_error"],
         mem |-> MemWrite(mem, line.addr % MEM_SIZE, U16(line.instr))]
    ELSE
        [ld |-> [ld EXCEPT !.expectedaddr = @ + 1, !.next = @ + 1],
         mem |-> MemWrite(mem, line.addr, U16(line.instr))]

\* the body of while (getline(f, line)) in load_machine_code: exit(1) on a
\* line that does not match, an exception nobody catches when stoi fails,
\* exit(1) on an address out of sequence or not below MEM_SIZE, and else
\* the word stored in a uint16_t at the address
load_line(ld, mem, line) ==
    IF line.kind = "nomatch" THEN
        [ld |-> [ld EXCEPT !.status = "load_error"], mem |-> mem]
    ELSE IF line.kind = "badnumber" THEN
        [ld |-> [ld EXCEPT !.status = "terminated"], mem |-> mem]
    ELSE IF line.addr # ld.expectedaddr THEN
        [ld |-> [ld EXCEPT !.status = "load_error"], mem |-> mem]
    ELSE IF line.addr >= MEM_SIZE THEN
        [ld |-> [ld EXCEPT !.status = "load_error"], mem |-> mem]
    ELSE
        [ld |-> [ld EXCEPT !.expectedaddr = @ + 1, !.next = @ + 1],
         mem |-> MemWrite(mem, line.addr, U16(line.instr))]

\* the words print_state writes: the pc, the registers and the first
\* memquantity words of memory
print_state(p, regs, memory, memquantity) ==
    [pc |-> p, regs |-> regs,
     memory |-> [a \in (DOMAIN memory) \cap (0..(memquantity - 1)) |-> memory[a]]]

\* how many words of memory main has print_state write
SnapshotWords == 128

InitWith(images, configs) ==
    /\ \E image \in images :
        /\ memory_arr = LoadImage(image)
        /\ cmemory_arr = LoadImage(image)
        /\ loader = Loaded(image)
    /\ pc = 0
    /\ regs_arr = [i \in 0..(NUM_REGS - 1) |-> 0]
    /\ halt = FALSE
    /\ cpc = 0
    /\ cregs_arr = [i \in 0..(NUM_REGS - 1) |-> 0]
    /\ parts \in configs
    /\ cstate = StartState(parts)
    /\ a_cache = IF StartState(parts) = "running" THEN MakeCache(parts) ELSE NoCache
    /\ log = <<>>
    /\ steps = [main |-> 0, run |-> 0]
    /\ last = [main |-> NoFetch, run |-> NoFetch, call |-> NoCall]
    /\ printed = [main |-> <<>>, run |-> <<>>]
    /\ returned = [main |-> FALSE, run |-> StartState(parts) \in {"exited", "config_error"}]

\* the fetch index the calls of cache_func are given
AccessPcs == {0}

\* one turn of the loop of load_machine_code, in both programs: the next
\* line taken, or the end of the file found and the function left; main of
\* e20_sim_cache.cpp reads the cache configuration only after that
LoadLine ==
    /\ loader.status = "loading"
    /\ IF loader.next > Len(loader.lines)
       THEN /\ loader' = [loader EXCEPT !.status = "loaded"]
            /\ cstate' = StartState(parts)
            /\ a_cache' = IF StartState(parts) = "running" THEN MakeCache(parts) ELSE NoCache
            /\ returned' = [returned EXCEPT
                               !.run = StartState(parts) \in {"exited", "config_error"}]
            /\ UNCHANGED <<memory_arr, cmemory_arr>>
       ELSE LET m == load_line(loader, memory_arr, loader.lines[loader.next])
                c == load_line(loader, cmemory_arr, loader.lines[loader.next])
            IN  /\ loader' = m.ld
                /\ memory_arr' = m.mem
                /\ cmemory_arr' = c.mem
                /\ cstate' = IF m.ld.status = "loading" THEN cstate ELSE m.ld.status
                /\ returned' = IF m.ld.status = "loading" THEN returned
                               ELSE [main |-> TRUE, run |-> TRUE]
                /\ UNCHANGED a_cache
    /\ UNCHANGED <<pc, regs_arr, halt, cpc, cregs_arr, parts, log, steps, last, printed>>

\* one iteration of the loop of main in e20_sim.cpp
MainStep ==
    /\ loader.status = "loaded"
    /\ ~halt
    /\ steps.main < MaxSteps
    /\ steps.main <= steps.run \/ cstate # "running"
    /\ LET n == Main_Step([pc |-> pc, regs |-> regs_arr, mem |-> memory_arr, halt |-> halt])
       IN  /\ pc' = n.pc
           /\ regs_arr' = n.regs
           /\ memory_arr' = n.mem
           /\ halt' = n.halt
    /\ steps' = [steps EXCEPT !.main = @ + 1]
    /\ last' = [last EXCEPT !.main = [pc |-> pc, instruction |-> MemRead(memory_arr, FetchIndex(pc)),
                                      regs |-> regs_arr]]
    /\ UNCHANGED <<cpc, cregs_arr, cmemory_arr, cstate, parts, a_cache, log,
                   loader, printed, returned>>

\* e20_sim.cpp after the loop: print_state(pc, regs_arr, memory_arr, 128)
\* and return 0
MainPrint ==
    /\ halt
    /\ ~returned.main
    /\ printed' = [printed EXCEPT !.main =
                       Append(@, print_state(pc, regs_arr, memory_arr, SnapshotWords))]
    /\ returned' = [returned EXCEPT !.main = TRUE]
    /\ UNCHANGED <<pc, regs_arr, memory_arr, halt, cpc, cregs_arr, cmemory_arr, cstate,
                   parts, a_cache, log, steps, last, loader>>

\* one iteration of the loop of run_e20_simulator in e20_sim_cache.cpp
RunStep ==
    /\ loader.status = "loaded"
    /\ cstate = "running"
    /\ steps.run < MaxSteps
    /\ steps.run < steps.main \/ halt
    /\ LET n == Run_Step([pc |-> cpc, regs |-> cregs_arr, mem |-> cmemory_arr,
                          halt |-> FALSE, cache |-> a_cache, config |-> parts,
                          log |-> log, undefined |-> FALSE, call |-> last.call])
       IN  /\ cpc' = n.pc
           /\ cregs_arr' = n.regs
           /\ cmemory_arr' = n.mem
           /\ a_cache' = n.cache
           /\ log' = n.log
           /\ cstate' = IF n.undefined THEN "undefined"
                        ELSE IF n.halt THEN "halted" ELSE "running"
           /\ last' = [last EXCEPT !.run = [pc |-> cpc,
                                            instruction |-> MemRead(cmemory_arr, FetchIndex(cpc)),
                                            regs |-> cregs_arr],
                                   !.call = n.call]
    /\ steps' = [steps EXCEPT !.run = @ + 1]
    /\ UNCHANGED <<pc, regs_arr, memory_arr, halt, parts, loader, printed, returned>>

\* e20_sim_cache.cpp after the loop: run_e20_simulator returns 0 and main
\* returns 0; nothing is written on the way
RunReturn ==
    /\ cstate = "halted"
    /\ ~returned.run
    /\ returned' = [returned EXCEPT !.run = TRUE]
    /\ UNCHANGED <<pc, regs_arr, memory_arr, halt, cpc, cregs_arr, cmemory_arr, cstate,
                   parts, a_cache, log, steps, last, loader, printed>>

\* one call of cache_func, as the lw and sw branches of run_e20_simulator
\* make it, with the address, the fetch index and the kind of access given
CacheAccess(n, addresses) ==
    /\ cstate = "running"
    /\ steps.run < n
    /\ \E address \in addresses, index \in AccessPcs, is_store_word \in BOOLEAN :
        IF CacheFuncUndefined(address, a_cache, parts)
        THEN /\ cstate' = "undefined"
             /\ UNCHANGED <<a_cache, log, last>>
        ELSE LET r == cache_func(address, index, a_cache, parts, is_store_word)
             IN  /\ a_cache' = r.cache
                 /\ log' = log \o r.out
                 /\ last' = [last EXCEPT !.call = CallOf(address, index, is_store_word)]
                 /\ cstate' = cstate
    /\ steps' = [steps EXCEPT !.run = @ + 1]
    /\ UNCHANGED <<pc, regs_arr, memory_arr, halt, cpc, cregs_arr, cmemory_arr, parts,
                   loader, printed, returned>>

\* ------------------------------------------------------------------------
\* Specification: both simulators on the same program
\* ------------------------------------------------------------------------
\* instruction words the program images are made of
EnginePool ==
    { EncI(4, 0, 1, 2),     \* lw   $1, 2($0)
      EncR(1, 0, 0, 8),     \* jr   $1
      EncJ(2, 2),           \* j    2
      EncR(0, 0, 0, 5),     \* opcode 0 with the selector 5
      EncR(1, 1, 0, 0),     \* add  $0, $1, $1
      EncR(0, 1, 0, 1),     \* sub  $0, $0, $1
      EncR(1, 1, 0, 2),     \* or   $0, $1, $1
      EncR(1, 1, 0, 3),     \* and  $0, $1, $1
      EncR(0, 1, 0, 4),     \* slt  $0, $0, $1
      EncI(1, 0, 0, 3),     \* addi $0, $0, 3
      EncI(4, 0, 0, 0),     \* lw   $0, 0($0)
      EncI(7, 0, 0, 3) }    \* slti $0, $0, 3

EngineConfigs == { <<4, 2, 1>> }

Init == InitWith(Images(EnginePool, MaxProgLen), EngineConfigs)

Next == MainStep \/ RunStep \/ MainPrint \/ RunReturn

Spec == Init /\ [][Next]_vars

\* ------------------------------------------------------------------------
\* What an iteration fetched, read back from the record of the latest fetch
\* ------------------------------------------------------------------------
\* the instruction writes a register chosen by a field of the word
WritesRegister(instruction) ==
    \/ Opcode(instruction) = 0 /\ Bits0_3(instruction) \in {0, 1, 2, 3, 4}
    \/ Opcode(instruction) \in {1, 4, 7}

\* the field that names the destination register
DestField(instruction) ==
    IF Opcode(instruction) = 0 THEN Bits4_6(instruction) ELSE Bits7_9(instruction)

\* the value the instruction computes for its destination, from the
\* registers and the memory it ran on
ComputedValue(regs, mem, instruction) ==
    LET x == regs[Bits10_12(instruction)]
        y == regs[Bits7_9(instruction)]
        imm == Bits0_6(instruction)
        sel == Bits0_3(instruction)
    IN  CASE Opcode(instruction) = 0 /\ sel = 0 -> (x + y) % REG_SIZE
          [] Opcode(instruction) = 0 /\ sel = 1 -> (x - y) % REG_SIZE
          [] Opcode(instruction) = 0 /\ sel = 2 -> BitOr(x, y, 16)
          [] Opcode(instruction) = 0 /\ sel = 3 -> BitAnd(x, y, 16)
          [] Opcode(instruction) = 0 /\ sel = 4 -> IF x < y THEN 1 ELSE 0
          [] Opcode(instruction) = 1 -> (x + imm) % REG_SIZE
          [] Opcode(instruction) = 4 -> MemRead(mem, (x + imm) % MEM_SIZE)
          [] Opcode(instruction) = 7 -> IF x < imm THEN 1 ELSE 0

\* opcode 0 with a selector that names no operation
UndefinedSelector(instruction) ==
    Opcode(instruction) = 0 /\ Bits0_3(instruction) \notin {0, 1, 2, 3, 4, 8}

\* the word the next iteration of main's loop fetches
MainFetch == MemRead(memory_arr, FetchIndex(pc))
\* the word the next iteration of run_e20_simulator's loop fetches
RunFetch == MemRead(cmemory_arr, FetchIndex(cpc))
\* this step is an iteration of main's loop
IsMainStep == steps'.main # steps.main
\* this step is an iteration of run_e20_simulator's loop
IsRunStep == steps'.run # steps.run

\* ------------------------------------------------------------------------
\* C1: register 0 holds 0 in every state, in both simulators, whatever an
\* instruction with the destination field 0 computed.
\* ------------------------------------------------------------------------
C1_RegisterZero == regs_arr[0] = 0 /\ cregs_arr[0] = 0

\* both simulators have just run an instruction with destination field 0
\* that computed a value other than 0
C1_Witness ==
    /\ last.main.instruction # -1
    /\ WritesRegister(last.main.instruction)
    /\ DestField(last.main.instruction) = 0
    /\ ComputedValue(last.main.regs, memory_arr, last.main.instruction) # 0
    /\ last.run = last.main
    /\ steps.run = steps.main

\* ------------------------------------------------------------------------
\* C2: a step halts exactly when it fetches a word with opcode 2 whose
\* 13-bit target equals the raw pc held before the fetch; the final pc is
\* that target; and once halted a simulator takes no further step.
\* ------------------------------------------------------------------------
C2_HaltIffSelfJump ==
    [][ /\ (~halt /\ halt') <=>
            (IsMainStep /\ Opcode(MainFetch) = 2 /\ Bits0_12(MainFetch) = pc)
        /\ (~halt /\ halt') => pc' = Bits0_12(MainFetch)
        /\ halt => /\ halt'
                   /\ ~IsMainStep
                   /\ UNCHANGED <<pc, regs_arr, memory_arr>>
        /\ (cstate = "running" /\ cstate' = "halted") <=>
            (IsRunStep /\ Opcode(RunFetch) = 2 /\ Bits0_12(RunFetch) = cpc)
        /\ (cstate = "running" /\ cstate' = "halted") => cpc' = Bits0_12(RunFetch)
        /\ cstate = "halted" => /\ cstate' = "halted"
                                /\ ~IsRunStep
                                /\ UNCHANGED <<cpc, cregs_arr, cmemory_arr>>
        /\ cstate' = "halted" => cstate \in {"running", "halted"}
      ]_vars

\* both simulators have halted on a jump to itself, after a jump whose
\* target was the fetch index but not the raw pc had not halted
C2_Witness ==
    /\ halt
    /\ cstate = "halted"
    /\ steps.main >= 4
    /\ pc = Bits0_12(last.main.instruction)
    /\ last.main.pc = pc

\* ------------------------------------------------------------------------
\* C3: fetching an opcode-0 word whose selector is none of 0,1,2,3,4,8 is
\* surfaced as an outcome of its own: the simulator does not stay running
\* with its pc, registers and memory exactly as they were.
\* ------------------------------------------------------------------------
C3_UndefinedSelectorSurfaced ==
    [][ /\ (IsMainStep /\ UndefinedSelector(MainFetch)) =>
              ~(~halt' /\ pc' = pc /\ regs_arr' = regs_arr /\ memory_arr' = memory_arr)
        /\ (IsRunStep /\ UndefinedSelector(RunFetch)) =>
              ~(cstate' = "running" /\ cpc' = cpc /\ cregs_arr' = cregs_arr
                  /\ cmemory_arr' = cmemory_arr)
      ]_vars

\* ------------------------------------------------------------------------
\* Specification: both simulators on programs of loads and stores, under
\* every kind of cache configuration main can be given
\* ------------------------------------------------------------------------
RunPool ==
    { EncI(1, 0, 1, 5),     \* addi $1, $0, 5
      EncI(5, 0, 2, 3),     \* sw   $2, 3($0)
      EncI(4, 0, 2, 1),     \* lw   $2, 1($0)
      EncI(5, 1, 2, 0),     \* sw   $2, 0($1)
      EncJ(2, 2) }          \* j    2

RunConfigs ==
    { <<>>,                     \* no --cache argument
      <<4, 2, 1>>,              \* one level, 2 rows
      <<2, 1, 1, 8, 2, 2>>,     \* two levels, 2 rows each
      <<3, 1, 2>>,              \* 3 is no multiple of 1 * 2
      <<1, 2, 1>>,              \* 1 / (2 * 1) is 0
      <<2, 1, 1, 5, 2, 2>>,     \* second level: 5 is no multiple of 2 * 2
      <<4, 1>> }                \* neither three nor six numbers

RunInit == InitWith(Images(RunPool, MaxRunLen), RunConfigs)

CacheRunSpec == RunInit /\ [][Next]_vars

\* size is a multiple of associativity * blocksize, and not 0 times it
EvenlyDivisible(size, assoc, blocksize) ==
    /\ assoc * blocksize > 0
    /\ size % (assoc * blocksize) = 0
    /\ size >= assoc * blocksize

\* a configuration of one or two levels, each evenly divisible
ValidConfig(config) ==
    \/ Len(config) = 3 /\ EvenlyDivisible(config[1], config[2], config[3])
    \/ /\ Len(config) = 6
       /\ EvenlyDivisible(config[1], config[2], config[3])
       /\ EvenlyDivisible(config[4], config[5], config[6])

\* a configuration of one or two levels, one of them not evenly divisible
BadGeometry(config) == Len(config) \in {3, 6} /\ ~ValidConfig(config)

\* ------------------------------------------------------------------------
\* C4: under a valid cache configuration the simulator with the cache runs,
\* and after the same number of steps it has the pc, the registers, the
\* memory and the halt decision of the simulator without a cache.
\* ------------------------------------------------------------------------
C4_SameArchitecturalState ==
    ValidConfig(parts) =>
        /\ cstate \in {"running", "halted"}
        /\ steps.run = steps.main =>
              /\ cpc = pc
              /\ cregs_arr = regs_arr
              /\ cmemory_arr = memory_arr
              /\ (cstate = "halted") = halt

\* both simulators have halted after a store changed memory and a load
\* read a word other than 0 through a two-level cache
C4_Witness ==
    /\ Len(parts) = 6
    /\ ValidConfig(parts)
    /\ halt
    /\ cstate = "halted"
    /\ \E i \in 1..Len(log) : log[i].status = "SW"
    /\ \E i \in 1..Len(log) : log[i].status \in {"HIT", "MISS"}
    /\ cregs_arr[2] # 0
    /\ cmemory_arr # LoadImage(<<>>)

\* ------------------------------------------------------------------------
\* C8: with a level whose size is no multiple of associativity * blocksize
\* (a quotient of 0 included) no simulation step is taken and cache_func is
\* never called.
\* ------------------------------------------------------------------------
C8_BadGeometryNeverRuns ==
    BadGeometry(parts) => steps.run = 0 /\ log = <<>> /\ cstate # "halted"

\* ------------------------------------------------------------------------
\* Specification: the cache model under a sequence of calls of cache_func
\* ------------------------------------------------------------------------
\* addresses 0 and 1 share a block wherever the block size is above 1;
\* 0, 8 and 16 fall into one row with three tags under every configuration
\* below
AccessAddresses == {0, 1, 8, 16}

CacheConfigs ==
    { <<16, 2, 4>>,             \* one level: 2 rows of 2 blocks of 4 words
      <<4, 2, 2, 16, 1, 4>>,    \* L1: 1 row of 2 blocks; L2: 4 rows of 1 block
      <<8, 1, 4>> }             \* one level, direct mapped: 2 rows of 1 block

\* no program is loaded: every call of cache_func is made here directly
CacheInit == InitWith({<<>>}, CacheConfigs)

Access == CacheAccess(MaxAccesses, AccessAddresses)

CacheNext == Access

CacheSpec == CacheInit /\ [][CacheNext]_vars

\* the numbers of a level (1 or 2) in the configuration
SizeOf(level) == parts[3 * (level - 1) + 1]
AssocOf(level) == parts[3 * (level - 1) + 2]
BlockSizeOf(level) == parts[3 * (level - 1) + 3]
\* the row count, the block, the row and the tag the design gives a level
RowCount(level) == SizeOf(level) \div (AssocOf(level) * BlockSizeOf(level))
BlockId(address, level) == address \div BlockSizeOf(level)
RowNum(address, level) == BlockId(address, level) % RowCount(level)
TagNum(address, level) == BlockId(address, level) \div RowCount(level)

\* the tags a row of a level holds, oldest first
RowTags(cache, level, row) ==
    LET blocks == cache.levels_vec[level].rows_vec[row + 1].blocks_vec
    IN  [i \in 1..Len(blocks) |-> blocks[i].tag]
\* the tags as a set
TagSet(tags) == {tags[i] : i \in 1..Len(tags)}

IsL1(e) == e.cache_name = "L1"
\* the lines of the log written for L1: one for every call of cache_func
L1Log == SelectSeq(log, IsL1)

\* the lines this step adds to the log
NewLines == SubSeq(log', Len(log) + 1, Len(log'))
\* this step is a call of cache_func
IsCall == steps'.run # steps.run /\ cstate' = "running" /\ log' # log

\* ------------------------------------------------------------------------
\* C5: with an L1 of associativity 2, after four calls in a row for tags
\* A, B, A, C of one row (distinct tags, loads or stores, whatever the row
\* held before) the row holds exactly A and C.
\* ------------------------------------------------------------------------
C5_LruKeepsRefreshedTag ==
    LET n == Len(L1Log)
    IN  (AssocOf(1) = 2 /\ n >= 4) =>
            LET a == [k \in 1..4 |-> L1Log[n - 4 + k].addr]
                tA == TagNum(a[1], 1)
                tB == TagNum(a[2], 1)
                tC == TagNum(a[4], 1)
            IN  ( /\ \A k \in 2..4 : RowNum(a[k], 1) = RowNum(a[1], 1)
                  /\ TagNum(a[3], 1) = tA
                  /\ tA # tB /\ tA # tC /\ tB # tC )
                => TagSet(RowTags(a_cache, 1, RowNum(a[1], 1))) = {tA, tC}

\* the four calls A, B, A, C have been made, loads and stores among them,
\* on a row that held C before
C5_Witness ==
    LET n == Len(L1Log)
    IN  /\ AssocOf(1) = 2
        /\ n = 5
        /\ LET a == [k \in 1..5 |-> L1Log[k].addr]
           IN  /\ \A k \in 2..5 : RowNum(a[k], 1) = RowNum(a[1], 1)
               /\ TagNum(a[1], 1) = TagNum(a[5], 1)
               /\ TagNum(a[2], 1) = TagNum(a[4], 1)
               /\ TagNum(a[2], 1) # TagNum(a[3], 1)
               /\ TagNum(a[2], 1) # TagNum(a[5], 1)
               /\ TagNum(a[3], 1) # TagNum(a[5], 1)
        /\ \E k \in 2..5 : L1Log[k].status = "SW"
        /\ \E k \in 2..5 : L1Log[k].status # "SW"
        /\ RowTags(a_cache, 1, RowNum(L1Log[1].addr, 1))
               = <<TagNum(L1Log[2].addr, 1), TagNum(L1Log[5].addr, 1)>>

\* ------------------------------------------------------------------------
\* C6: the lines a call of cache_func prints.  Two levels: a store prints
\* L1 SW then L2 SW whether or not the tag is present; a load that finds
\* its tag in L1 prints L1 HIT alone; a load that does not prints L1 MISS
\* then L2 HIT or L2 MISS.  One level: every call prints exactly one line.
\* ------------------------------------------------------------------------
C6_LinesPerCall ==
    [][ IsCall =>
          LET call == last'.call
              inL1 == TagNum(call.address, 1)
                          \in TagSet(RowTags(a_cache, 1, RowNum(call.address, 1)))
              new == NewLines
          IN  /\ new[1].cache_name = "L1"
              /\ new[1].addr = call.address
              /\ IF Len(parts) = 3 THEN
                     /\ Len(new) = 1
                     /\ new[1].status = IF call.is_store_word THEN "SW"
                                        ELSE IF inL1 THEN "HIT" ELSE "MISS"
                 ELSE IF call.is_store_word THEN
                     /\ Len(new) = 2
                     /\ new[1].status = "SW"
                     /\ new[2].cache_name = "L2"
                     /\ new[2].status = "SW"
                     /\ new[2].addr = call.address
                 ELSE IF inL1 THEN
                     /\ Len(new) = 1
                     /\ new[1].status = "HIT"
                 ELSE
                     /\ Len(new) = 2
                     /\ new[1].status = "MISS"
                     /\ new[2].cache_name = "L2"
                     /\ new[2].status \in {"HIT", "MISS"}
                     /\ new[2].addr = call.address
      ]_vars

\* with two levels: a store whose tag was present in L1 and in L2 has
\* printed its two lines, after a load that hit in L1 printed one
C6_Witness ==
    /\ Len(parts) = 6
    /\ Len(log) = 5
    /\ log[1].status = "MISS" /\ log[2].status = "MISS"
    /\ log[3].status = "HIT" /\ log[3].cache_name = "L1"
    /\ log[4].status = "SW" /\ log[4].cache_name = "L1"
    /\ log[5].status = "SW" /\ log[5].cache_name = "L2"
    /\ log[4].addr = log[1].addr /\ log[3].addr = log[1].addr

\* ------------------------------------------------------------------------
\* C7: with two levels, L2 is probed (a line printed for it, the tag made
\* the newest block of its row) exactly when the call is a store or a load
\* whose tag is not in L1; a load whose tag is in L1 leaves L2 as it is.
\* ------------------------------------------------------------------------
C7_L2ProbedOnStoreOrL1Miss ==
    [][ (IsCall /\ Len(parts) = 6) =>
          LET call == last'.call
              inL1 == TagNum(call.address, 1)
                          \in TagSet(RowTags(a_cache, 1, RowNum(call.address, 1)))
              probed == call.is_store_word \/ ~inL1
              row2 == RowNum(call.address, 2)
              tags2 == RowTags(a_cache', 2, row2)
          IN  /\ probed <=> (\E i \in 1..Len(NewLines) : NewLines[i].cache_name = "L2")
              /\ probed =>
                    /\ tags2[Len(tags2)] = TagNum(call.address, 2)
                    /\ \A r \in 0..(RowCount(2) - 1) :
                          r # row2 => RowTags(a_cache', 2, r) = RowTags(a_cache, 2, r)
              /\ ~probed => a_cache'.levels_vec[2] = a_cache.levels_vec[2]
      ]_vars

\* with two levels: the latest call was a load that hit in L1, after L2
\* had taken up tags of earlier calls
C7_Witness ==
    /\ Len(parts) = 6
    /\ Len(log) >= 3
    /\ ~last.call.is_store_word
    /\ log[Len(log)].cache_name = "L1"
    /\ log[Len(log)].status = "HIT"
    /\ \E r \in 0..(RowCount(2) - 1) : EmptyTag \notin TagSet(RowTags(a_cache, 2, r))

\* ------------------------------------------------------------------------
\* C9: under the configuration 16,2,4 the cache has 2 rows; addresses 0 and
\* 8 fall into row 0, with the tag 0 for address 0 and the tag t for address
\* 8; from the empty cache the loads of 0, of 8 and of 0 again are logged
\* MISS, MISS and HIT.
\* ------------------------------------------------------------------------
ScenarioWithTag(t) ==
    parts = <<16, 2, 4>> =>
        /\ Len(a_cache.levels_vec[1].rows_vec) = 2
        /\ (Len(log) >= 1 /\ log[1].addr = 0) =>
              /\ log[1].row = 0
              /\ Len(log) = 1 => RowTags(a_cache, 1, 0) = <<EmptyTag, 0>>
        /\ (Len(log) >= 1 /\ log[1].addr = 0 /\ log[1].status # "SW") =>
              log[1].status = "MISS"
        /\ (Len(log) >= 2 /\ log[1].addr = 0 /\ log[2].addr = 8) =>
              /\ log[2].row = 0
              /\ Len(log) = 2 => RowTags(a_cache, 1, 0) = <<0, t>>
        /\ (Len(log) >= 2 /\ log[1].addr = 0 /\ log[2].addr = 8 /\ log[2].status # "SW") =>
              log[2].status = "MISS"
        /\ (Len(log) >= 3 /\ log[1].addr = 0 /\ log[2].addr = 8 /\ log[3].addr = 0
              /\ log[3].status # "SW") =>
              /\ log[3].status = "HIT"
              /\ log[3].row = 0

\* C9 as claimed: the tag of address 8 is 2
C9_ScenarioTagTwo == ScenarioWithTag(2)

\* C9 as amended: the tag of address 8 is 1 (its block is 2, and 2 / 2 = 1)
C9_ScenarioTagOne == ScenarioWithTag(1)

\* the three loads of the scenario have been made
C9_Witness ==
    /\ parts = <<16, 2, 4>>
    /\ Len(log) = 3
    /\ log[1].addr = 0 /\ log[2].addr = 8 /\ log[3].addr = 0
    /\ \A i \in 1..3 : log[i].status # "SW"

\* ------------------------------------------------------------------------
\* Specification: calls of cache_func, every address of memory examined
\* ------------------------------------------------------------------------
ProbeAddresses == {0, 8, 4095, MEM_SIZE - 1}

ProbeConfigs ==
    { <<16, 2, 4>>,
      <<4, 2, 2, 16, 1, 4>>,
      <<8, 1, 4>>,
      <<3, 1, 1, 32, 4, 2>>,    \* L1: 3 rows of 1 word; L2: 4 rows of 4 blocks
      <<1, 1, 1>> }             \* one block of one word: the tag is the address

ProbeInit == InitWith({<<>>}, ProbeConfigs)

Probe == CacheAccess(MaxProbes, ProbeAddresses)

ProbeNext == Probe

GeometrySpec == ProbeInit /\ [][ProbeNext]_vars

\* the lines of the log written for a level
LevelLog(name) == SelectSeq(log, LAMBDA e : e.cache_name = name)

\* ------------------------------------------------------------------------
\* C10: in every level the probe of an address uses the block
\* address div blocksize, the row block mod rows and the tag block div rows
\* of that level: the row logged and the tag stored for the latest call are
\* these, the row of every address of memory is below the row count, and an
\* address of memory has the row and the tag of the address probed exactly
\* when the two lie in one block of the level.
\* ------------------------------------------------------------------------
C10_RowAndTagOfBlock ==
    \A level \in 1..(Len(parts) \div 3) :
        LET name == IF level = 1 THEN "L1" ELSE "L2"
            lines == LevelLog(name)
            bs == a_cache.levels_vec[level].blocksize
            rows == Len(a_cache.levels_vec[level].rows_vec)
        IN  /\ rows = RowCount(level)
            /\ bs = BlockSizeOf(level)
            /\ \A b \in 0..(MEM_SIZE - 1) : RowOf(b, bs, rows) \in 0..(rows - 1)
            /\ (lines # <<>> /\ lines[Len(lines)].addr = last.call.address) =>
                  LET a == last.call.address
                      row == lines[Len(lines)].row
                      tags == RowTags(a_cache, level, row)
                      tag == tags[Len(tags)]
                  IN  /\ row = (a \div bs) % rows
                      /\ tag = (a \div bs) \div rows
                      /\ \A b \in 0..(MEM_SIZE - 1) :
                            (RowOf(b, bs, rows) = row /\ TagOf(b, bs, rows) = tag)
                                <=> (b \div bs = a \div bs)

\* a call has probed both levels of a cache whose levels differ in block
\* size and row count, for an address above the first rows
C10_Witness ==
    /\ Len(parts) = 6
    /\ BlockSizeOf(1) # BlockSizeOf(2)
    /\ RowCount(1) # RowCount(2)
    /\ last.call.address = MEM_SIZE - 1
    /\ Len(log) >= 2
    /\ log[Len(log)].cache_name = "L2"
    /\ log[Len(log)].addr = last.call.address
    /\ log[Len(log) - 1].row # log[Len(log)].row

\* ------------------------------------------------------------------------
\* The rule of replacement, told of a row of tags and of nothing else
\* ------------------------------------------------------------------------
\* a tag present is taken out and put at the tail; for a tag absent the
\* head is taken out and the tag put at the tail
ExpectedRow(tags, t) ==
    IF t \in TagSet(tags)
    THEN Append(SelectSeq(tags, LAMBDA x : x # t), t)
    ELSE Append(Tail(tags), t)

RECURSIVE ReplayRowTags(_, _, _)
\* the tags of a row of L1 after the first k of the calls logged in lines,
\* given their addresses alone
ReplayRowTags(lines, row, k) ==
    IF k = 0 THEN [i \in 1..AssocOf(1) |-> EmptyTag]
    ELSE LET before == ReplayRowTags(lines, row, k - 1)
             a == lines[k].addr
         IN  IF RowNum(a, 1) = row THEN ExpectedRow(before, TagNum(a, 1)) ELSE before

\* ------------------------------------------------------------------------
\* C11: the rows of L1 are what the rule of replacement makes of the
\* addresses of the calls so far, in their order, whether each call was a
\* load or a store; so two runs given the same addresses and different
\* kinds of access hold the same tags in the same order.
\* ------------------------------------------------------------------------
C11_L1IgnoresAccessKind ==
    LET lines == L1Log
    IN  \A row \in 0..(RowCount(1) - 1) :
            RowTags(a_cache, 1, row) = ReplayRowTags(lines, row, Len(lines))

\* a store has refreshed a tag that was the older of two in its row, a
\* store has brought in a tag that was absent, and loads have hit and missed
C11_Witness ==
    LET n == Len(L1Log)
        rowOf(k) == RowNum(L1Log[k].addr, 1)
        tagOf(k) == TagNum(L1Log[k].addr, 1)
    IN  /\ AssocOf(1) = 2
        /\ \E k \in 1..n : /\ L1Log[k].status = "SW"
                            /\ ReplayRowTags(L1Log, rowOf(k), k - 1)[1] = tagOf(k)
        /\ \E k \in 1..n : /\ L1Log[k].status = "SW"
                            /\ tagOf(k) \notin TagSet(ReplayRowTags(L1Log, rowOf(k), k - 1))
        /\ \E k \in 1..n : L1Log[k].status = "HIT"
        /\ \E k \in 1..n : L1Log[k].status = "MISS"

\* ------------------------------------------------------------------------
\* Specification: both simulators on programs whose registers reach the
\* ends of the 16-bit range
\* ------------------------------------------------------------------------
ArithPool ==
    { EncI(1, 0, 1, 127),   \* addi $1, $0, -1      $1 = 65535
      EncI(1, 1, 2, 1),     \* addi $2, $1, 1
      EncR(1, 2, 1, 0),     \* add  $1, $1, $2
      EncR(2, 1, 3, 1),     \* sub  $3, $2, $1
      EncR(1, 2, 3, 2),     \* or   $3, $1, $2
      EncR(1, 2, 3, 3),     \* and  $3, $1, $2
      EncR(1, 2, 3, 4),     \* slt  $3, $1, $2
      EncI(7, 2, 3, 127),   \* slti $3, $2, -1
      EncI(7, 1, 3, 5),     \* slti $3, $1, 5
      EncI(5, 1, 1, 1),     \* sw   $1, 1($1)
      EncI(4, 1, 3, 127),   \* lw   $3, -1($1)
      EncR(1, 0, 0, 8),     \* jr   $1
      EncJ(2, 0) }          \* j    0

ArithInit == InitWith(Images(ArithPool, MaxArithLen), EngineConfigs)

ArithSpec == ArithInit /\ [][Next]_vars

\* bit i of a word
BitOf(x, i) == (x \div (2 ^ i)) % 2

\* the immediate of an instruction as a number of 0..65535: the low seven
\* bits, with 65408 added when bit 6 is set
Immediate(instruction) ==
    LET x == instruction % 128
    IN  IF x < 64 THEN x ELSE x + 65408

\* every register holds a number of 0..65535
InWordRange(regs) == \A i \in 0..7 : regs[i] \in 0..65535

\* an iteration that fetched add, sub, or, and or addi on the registers
\* before left the result reduced modulo 65536 in its destination (register
\* 0 excepted) and every other register as it was
ArithmeticWraps(before, instruction, after) ==
    LET x == before[(instruction \div 1024) % 8]
        y == before[(instruction \div 128) % 8]
        sel == instruction % 16
        d == IF instruction \div 8192 = 0 THEN (instruction \div 16) % 8
             ELSE (instruction \div 128) % 8
        r == after[d]
    IN  ((instruction \div 8192 = 0 /\ sel \in {0, 1, 2, 3}) \/ instruction \div 8192 = 1) =>
            /\ \A i \in 0..7 : i # d => after[i] = before[i]
            /\ after[0] = 0
            /\ d # 0 =>
                  IF instruction \div 8192 = 1 THEN r = (x + Immediate(instruction)) % 65536
                  ELSE IF sel = 0 THEN r = (x + y) % 65536
                  ELSE IF sel = 1 THEN r = (x - y) % 65536
                  ELSE IF sel = 2 THEN
                      \A i \in 0..15 : BitOf(r, i) = 1 <=> (BitOf(x, i) = 1 \/ BitOf(y, i) = 1)
                  ELSE
                      \A i \in 0..15 : BitOf(r, i) = 1 <=> (BitOf(x, i) = 1 /\ BitOf(y, i) = 1)

\* ------------------------------------------------------------------------
\* C12: add, sub, or, and and addi leave their result reduced modulo 65536
\* in the destination, with no other effect on the registers and no signal
\* of overflow (the simulator keeps running); every register holds a number
\* of 0..65535 in every state.  Both simulators.
\* ------------------------------------------------------------------------
C12_ArithmeticModulo65536 ==
    [][ /\ InWordRange(regs_arr) /\ InWordRange(regs_arr')
        /\ InWordRange(cregs_arr) /\ InWordRange(cregs_arr')
        /\ IsMainStep => /\ ArithmeticWraps(regs_arr, MainFetch, regs_arr')
                         /\ Opcode(MainFetch) \in {0, 1} => ~halt'
        /\ IsRunStep => /\ ArithmeticWraps(cregs_arr, RunFetch, cregs_arr')
                        /\ Opcode(RunFetch) \in {0, 1} => cstate' = "running"
      ]_vars

\* both simulators have just added 65535 and 1 and hold 0 in the
\* destination, after a sub below 0 or an addi of a negative immediate
C12_Witness ==
    /\ last.main.instruction = EncR(1, 2, 1, 0)
    /\ last.main.regs[1] = 65535
    /\ last.main.regs[2] = 1
    /\ regs_arr[1] = 0
    /\ last.run = last.main
    /\ cregs_arr[1] = 0
    /\ steps.run = steps.main

\* ------------------------------------------------------------------------
\* Specification: both simulators on the programs that put one immediate
\* to use, for every immediate of seven bits
\* ------------------------------------------------------------------------
\* the values of a field of seven bits
Imm7Values == 0..127

\* addi $1, $0, x followed by a jump to itself, and jeq $0, $0, x alone
ExtendImages ==
    {<<EncI(1, 0, 1, x), EncJ(2, 1)>> : x \in Imm7Values}
        \cup {<<EncI(6, 0, 0, x)>> : x \in Imm7Values}

ExtendInit == InitWith(ExtendImages, EngineConfigs)

ExtendSpec == ExtendInit /\ [][Next]_vars

\* the word at address 0 of the loaded program, its opcode and its immediate
FirstWord == MemRead(memory_arr, 0)
FirstOpcode == FirstWord \div 8192
FirstImm7 == FirstWord % 128

\* what the claim gives for the extension of x
Extension(x) == IF x < 64 THEN x ELSE x + 65408

\* ------------------------------------------------------------------------
\* C13: for every immediate x of seven bits the extension the decoder hands
\* to the instructions is x when x < 64 and x + 65408 when x >= 64 (65535
\* for 127, 1 for 1): an addi of x to register 0 leaves that number in its
\* destination, and a taken jeq with the immediate x leaves the pc at 1
\* plus that number modulo 65536, in both simulators.
\* ------------------------------------------------------------------------
C13_SignExtension ==
    /\ Extension(127) = 65535 /\ Extension(1) = 1
    /\ (FirstOpcode = 1 /\ steps.main >= 1) => regs_arr[1] = Extension(FirstImm7)
    /\ (FirstOpcode = 1 /\ steps.run >= 1) => cregs_arr[1] = Extension(FirstImm7)
    /\ (FirstOpcode = 6 /\ steps.main = 1) => pc = (1 + Extension(FirstImm7)) % 65536
    /\ (FirstOpcode = 6 /\ steps.run = 1) => cpc = (1 + Extension(FirstImm7)) % 65536

\* both simulators have run addi $1, $0, 127 and hold 65535 in register 1
C13_Witness ==
    /\ FirstWord = EncI(1, 0, 1, 127)
    /\ steps.main >= 1
    /\ steps.run >= 1
    /\ regs_arr[1] = 65535
    /\ cregs_arr[1] = 65535

\* ------------------------------------------------------------------------
\* C14: a run that has reached the halt condition and ended has written
\* the final snapshot (the final pc, the eight registers, the first 128
\* words of memory), without a cache as with a cache of one or two levels.
\* ------------------------------------------------------------------------
C14_RunEndsWithSnapshot ==
    /\ returned.main =>
          printed.main = <<print_state(pc, regs_arr, memory_arr, 128)>>
    /\ (ValidConfig(parts) /\ cstate = "halted" /\ returned.run) =>
          printed.run = <<print_state(cpc, cregs_arr, cmemory_arr, 128)>>

\* ------------------------------------------------------------------------
\* Specification: load_machine_code on files of any lines, then both
\* simulators on what was loaded
\* ------------------------------------------------------------------------
LoadAddresses == {0, 1, 2, MEM_SIZE - 1, MEM_SIZE}

LoadWords ==
    { EncJ(2, 0),           \* j    0
      EncI(1, 0, 1, 5) }    \* addi $1, $0, 5

LinePool ==
    {LineNoMatch, LineBadNumber}
        \cup {LineEntry(a, w) : a \in LoadAddresses, w \in LoadWords}

\* the files of at most n lines
Files(n) == UNION {[1..k -> LinePool] : k \in 0..n}

\* Loading starts at the first line of the file, or at the line that
\* follows MEM_SIZE - 1 lines ram[i] = 16'b0; for i = 0, 1, 2, ..., which
\* leave memory as it was and expectedaddr at MEM_SIZE - 1.
LoaderInit ==
    /\ \E zeros \in {0, MEM_SIZE - 1}, lines \in Files(MaxFileLen) :
          loader = [lines |-> lines, next |-> 1, expectedaddr |-> zeros, zeros |-> zeros,
                    status |-> "loading"]
    /\ memory_arr = LoadImage(<<>>)
    /\ cmemory_arr = LoadImage(<<>>)
    /\ pc = 0
    /\ regs_arr = [i \in 0..(NUM_REGS - 1) |-> 0]
    /\ halt = FALSE
    /\ cpc = 0
    /\ cregs_arr = [i \in 0..(NUM_REGS - 1) |-> 0]
    /\ parts \in EngineConfigs
    /\ cstate = "loading"
    /\ a_cache = NoCache
    /\ log = <<>>
    /\ steps = [main |-> 0, run |-> 0]
    /\ last = [main |-> NoFetch, run |-> NoFetch, call |-> NoCall]
    /\ printed = [main |-> <<>>, run |-> <<>>]
    /\ returned = [main |-> FALSE, run |-> FALSE]

LoaderNext == LoadLine \/ MainStep \/ RunStep \/ MainPrint \/ RunReturn

LoaderSpec == LoaderInit /\ [][LoaderNext]_vars

\* line k of the file carries the address that follows the one before it,
\* counted from 0 at the first line of the file, and the address is below
\* 8192
InSequence(k) ==
    /\ loader.lines[k].kind = "entry"
    /\ loader.lines[k].addr = loader.zeros + k - 1
    /\ loader.lines[k].addr < 8192

\* the first line that is not such a line; one past the last line if none
FirstBad ==
    LET bad == {k \in 1..Len(loader.lines) : ~InSequence(k)}
    IN  IF bad = {} THEN Len(loader.lines) + 1
        ELSE CHOOSE k \in bad : \A j \in bad : k <= j

\* memory holding the words of the first k lines at their addresses and 0
\* everywhere else
MemoryOfLines(k) ==
    [a \in {loader.zeros + i - 1 : i \in {j \in 1..k : loader.lines[j].instr # 0}}
        |-> loader.lines[a - loader.zeros + 1].instr]

\* nothing has been executed
NothingExecuted ==
    /\ steps = [main |-> 0, run |-> 0]
    /\ pc = 0 /\ cpc = 0 /\ log = <<>>
    /\ \A i \in 0..7 : regs_arr[i] = 0 /\ cregs_arr[i] = 0

\* ------------------------------------------------------------------------
\* C15: load_machine_code accepts a file exactly when every line gives the
\* address that follows the one before, from 0 on, below 8192.  At the
\* first line that does not match, cannot be converted, is out of sequence
\* or out of range it ends the program: memory holds the words of the
\* lines before that one and nothing of it, and no instruction has been or
\* will be executed.  After a file accepted memory holds the word of line i
\* at address i and 0 everywhere else, in both programs.
\* ------------------------------------------------------------------------
C15_LoaderAcceptsSequentialImage ==
    /\ loader.status = "loaded" =>
          /\ FirstBad = Len(loader.lines) + 1
          /\ memory_arr = MemoryOfLines(Len(loader.lines))
          /\ cmemory_arr = MemoryOfLines(Len(loader.lines))
    /\ loader.status \in {"load_error", "terminated"} =>
          /\ FirstBad <= Len(loader.lines)
          /\ loader.next = FirstBad
          /\ memory_arr = MemoryOfLines(FirstBad - 1)
          /\ cmemory_arr = MemoryOfLines(FirstBad - 1)
          /\ NothingExecuted
          /\ returned = [main |-> TRUE, run |-> TRUE]
          /\ printed = [main |-> <<>>, run |-> <<>>]
    /\ loader.status = "loading" =>
          /\ loader.next <= FirstBad
          /\ memory_arr = MemoryOfLines(loader.next - 1)
          /\ cmemory_arr = MemoryOfLines(loader.next - 1)
          /\ NothingExecuted

\* the loader has stored a word at address 8191 and ended the program at
\* the next line, which gave the address 8192 in its turn
C15_Witness ==
    /\ loader.status = "load_error"
    /\ loader.next = 2
    /\ loader.lines[1].addr = 8191
    /\ loader.lines[2].kind = "entry"
    /\ loader.lines[2].addr = 8192
    /\ MemRead(memory_arr, 8191) # 0
    /\ MemRead(cmemory_arr, 8191) # 0

\* ------------------------------------------------------------------------
\* C16: an iteration that fetches an opcode-0 word whose selector is none
\* of 0,1,2,3,4,8 leaves the pc, the registers and memory as they were and
\* does not halt; so a simulator about to fetch such a word is about to
\* fetch it again after every step, and never halts.  Both simulators.
\* ------------------------------------------------------------------------
C16_UndefinedSelectorStalls ==
    [][ /\ (IsMainStep /\ UndefinedSelector(MainFetch)) =>
              /\ pc' = pc /\ regs_arr' = regs_arr /\ memory_arr' = memory_arr
        /\ (~halt /\ UndefinedSelector(MainFetch)) =>
              /\ ~halt'
              /\ UndefinedSelector(MainFetch')
        /\ (IsRunStep /\ UndefinedSelector(RunFetch)) =>
              /\ cpc' = cpc /\ cregs_arr' = cregs_arr /\ cmemory_arr' = cmemory_arr
        /\ (cstate = "running" /\ UndefinedSelector(RunFetch)) =>
              /\ cstate' = "running"
              /\ UndefinedSelector(RunFetch')
      ]_vars

\* both simulators have reached such a word after other instructions and
\* have fetched it three times and more
C16_Witness ==
    /\ pc >= 1
    /\ steps.main >= pc + 3
    /\ UndefinedSelector(last.main.instruction)
    /\ last.main.pc = pc
    /\ ~halt
    /\ steps.run = steps.main
    /\ last.run = last.main
    /\ cpc = pc
    /\ cstate = "running"

\* the address lw and sw are to use: the sum of the register and the
\* immediate modulo 8192
DataAddress(regs, instruction) ==
    (regs[(instruction \div 1024) % 8] + Immediate(instruction)) % 8192

\* what one iteration did with memory and the registers, seen from the
\* state before (p, regs, mem), the word recorded as fetched and the state
\* after
AccessesInRange(p, regs, mem, fetched, regs2, mem2) ==
    LET rt == (fetched \div 128) % 8
        address == DataAddress(regs, fetched)
    IN  /\ p % 8192 \in 0..8191
        /\ fetched = MemRead(mem, p % 8192)
        /\ {(fetched \div 1024) % 8, (fetched \div 128) % 8, (fetched \div 16) % 8} \subseteq 0..7
        /\ DOMAIN regs2 = 0..7
        /\ DOMAIN mem2 \subseteq 0..8191
        /\ fetched \div 8192 \in {4, 5} =>
              /\ address \in 0..8191
              /\ address = ((regs[(fetched \div 1024) % 8] + Immediate(fetched)) % 65536) % 8192
        /\ (fetched \div 8192 = 4 /\ rt # 0) => regs2[rt] = MemRead(mem, address)
        /\ fetched \div 8192 = 5 => MemRead(mem2, address) = regs[rt]

\* ------------------------------------------------------------------------
\* C17: every iteration fetches memory[pc mod 8192]; a lw reads and a sw
\* writes the word at (reg[rs] + sign_extend(imm7)) mod 8192, which is the
\* sum wrapped to 16 bits and then reduced modulo 8192; these indices lie
\* in 0..8191, the register fields in 0..7, and no word outside 0..8191 or
\* register outside 0..7 ever comes to exist.  Both simulators.
\* ------------------------------------------------------------------------
C17_IndicesInRange ==
    [][ /\ IsMainStep =>
              AccessesInRange(pc, regs_arr, memory_arr, last'.main.instruction,
                              regs_arr', memory_arr')
        /\ (IsRunStep /\ cstate' # "undefined") =>
              AccessesInRange(cpc, cregs_arr, cmemory_arr, last'.run.instruction,
                              cregs_arr', cmemory_arr')
      ]_vars

\* both simulators have run sw $1, 1($1) with 65535 in register 1: the sum
\* 65536 gave the address 0, where the word now stands
C17_Witness ==
    /\ last.main.instruction = EncI(5, 1, 1, 1)
    /\ last.main.regs[1] = 65535
    /\ MemRead(memory_arr, 0) = 65535
    /\ last.run = last.main
    /\ MemRead(cmemory_arr, 0) = 65535
    /\ last.call.address = 0
    /\ steps.run = steps.main

\* a jump fetched through a pc above 8191 whose target is the address it
\* was fetched from
AliasedSelfJump(p, w) == w \div 8192 = 2 /\ p > 8191 /\ w % 8192 = p % 8192

\* what one iteration makes of the pc: p before, regs before, w the word at
\* address p mod 8192, p2 after, halted whether the loop has ended
RawPcStep(p, regs, w, p2, halted) ==
    LET op == w \div 8192
        sel == w % 16
    IN  /\ (op = 0 /\ sel = 8) => p2 = regs[(w \div 1024) % 8]
        /\ (op = 0 /\ sel \in {0, 1, 2, 3, 4}) => p2 = (p + 1) % 65536
        /\ op \in {1, 4, 5, 7} => p2 = (p + 1) % 65536
        /\ op \in {2, 3} => p2 = w % 8192
        /\ AliasedSelfJump(p, w) => ~halted

\* ------------------------------------------------------------------------
\* C18: the pc is a number of 0..65535 that only the fetch reduces, for its
\* index: jr leaves the whole of reg[a] in the pc, with nothing added; an
\* instruction fetched through a pc above 8191 leaves that pc plus 1, not
\* the index plus 1; a j standing at address t, fetched through the pc
\* t + 8192k (k > 0), with the target t, does not halt and leaves the pc at
\* t, and the iteration after it halts.  Both simulators.
\* ------------------------------------------------------------------------
C18_RawProgramCounter ==
    [][ /\ pc \in 0..65535 /\ pc' \in 0..65535
        /\ cpc \in 0..65535 /\ cpc' \in 0..65535
        /\ IsMainStep =>
              /\ RawPcStep(pc, regs_arr, MemRead(memory_arr, pc % 8192), pc', halt')
              /\ (steps.main > 0 /\ AliasedSelfJump(last.main.pc, last.main.instruction))
                    => halt'
        /\ IsRunStep =>
              /\ RawPcStep(cpc, cregs_arr, MemRead(cmemory_arr, cpc % 8192), cpc',
                           cstate' = "halted")
              /\ (steps.run > 0 /\ AliasedSelfJump(last.run.pc, last.run.instruction))
                    => cstate' = "halted"
      ]_vars

\* both simulators have just fetched j t through the pc t + 16384, put
\* there by jr, and stand at t without having halted
C18_Witness ==
    /\ AliasedSelfJump(last.main.pc, last.main.instruction)
    /\ last.main.pc = pc + 16384
    /\ ~halt
    /\ last.run = last.main
    /\ cpc = pc
    /\ cstate = "running"
    /\ steps.run = steps.main

\* the addresses at which one of two memories holds a word other than 0
Occupied(mem, mem2) == (DOMAIN mem) \cup (DOMAIN mem2)

\* what one iteration may do to memory and, if it stores, to the
\* registers: w the word fetched, regs and mem before, regs2 and mem2 after
StoreFrame(regs, mem, w, regs2, mem2) ==
    LET address == DataAddress(regs, w)
    IN  IF w \div 8192 = 5
        THEN /\ \A a \in Occupied(mem, mem2) \ {address} :
                    MemRead(mem2, a) = MemRead(mem, a)
             /\ MemRead(mem2, address) = regs[(w \div 128) % 8]
             /\ regs2 = regs
        ELSE \A a \in Occupied(mem, mem2) : MemRead(mem2, a) = MemRead(mem, a)

\* the word load_machine_code left at an address
LoadedWord(a) ==
    IF a < Len(loader.lines) THEN loader.lines[a + 1].instr ELSE 0

\* ------------------------------------------------------------------------
\* C19: an iteration that fetches a word of an opcode other than 5 leaves
\* every word of memory as it was; a sw leaves reg[rt] at memory[addr],
\* every other word and every register as they were; what follows the loop
\* leaves memory alone.  An address no sw was ever logged for holds the
\* word that was loaded there, or 0.  Both simulators.
\* ------------------------------------------------------------------------
C19_MemoryChangesOnlyBySw ==
    [][ /\ IF IsMainStep
           THEN StoreFrame(regs_arr, memory_arr, MainFetch, regs_arr', memory_arr')
           ELSE memory_arr' = memory_arr
        /\ IF IsRunStep /\ cstate' # "undefined"
           THEN StoreFrame(cregs_arr, cmemory_arr, RunFetch, cregs_arr', cmemory_arr')
           ELSE cmemory_arr' = cmemory_arr
        /\ \A a \in (DOMAIN cmemory_arr') \cup (0..(Len(loader.lines) - 1)) :
              (\A i \in 1..Len(log') : ~(log'[i].status = "SW" /\ log'[i].addr = a))
                  => MemRead(cmemory_arr', a) = LoadedWord(a)
      ]_vars

\* both simulators have just stored a word other than 0 at an address
\* beyond the loaded program, under a valid cache configuration
C19_Witness ==
    /\ ValidConfig(parts)
    /\ Opcode(last.main.instruction) = 5
    /\ last.main.regs[Bits7_9(last.main.instruction)] # 0
    /\ DataAddress(last.main.regs, last.main.instruction) >= Len(loader.lines)
    /\ MemRead(memory_arr, DataAddress(last.main.regs, last.main.instruction))
           = last.main.regs[Bits7_9(last.main.instruction)]
    /\ last.run = last.main
    /\ steps.run = steps.main
    /\ cmemory_arr = memory_arr
    /\ last.call.is_store_word

\* what an iteration that fetched slt or slti left in the registers: 1 in
\* the destination if the first operand is the smaller number of 0..65535,
\* else 0
UnsignedCompare(before, instruction, after) ==
    LET x == before[(instruction \div 1024) % 8]
        isSlt == instruction \div 8192 = 0 /\ instruction % 16 = 4
        isSlti == instruction \div 8192 = 7
        y == IF isSlt THEN before[(instruction \div 128) % 8] ELSE Immediate(instruction)
        d == IF isSlt THEN (instruction \div 16) % 8 ELSE (instruction \div 128) % 8
    IN  (isSlt \/ isSlti) =>
            /\ x \in 0..65535 /\ y \in 0..65535
            /\ isSlti /\ instruction % 128 >= 64 => y \in 65472..65535
            /\ d # 0 => after[d] = IF x < y THEN 1 ELSE 0
            /\ \A i \in 0..7 : i # d => after[i] = before[i]

\* ------------------------------------------------------------------------
\* C20: slt leaves 1 in reg[d] if reg[a] < reg[b] and slti leaves 1 in
\* reg[rt] if reg[rs] < sign_extend(imm7), both sides taken as numbers of
\* 0..65535, and 0 otherwise; an immediate with bit 6 set is a number of
\* 65472..65535, above every small register value.  Both simulators.
\* ------------------------------------------------------------------------
C20_UnsignedComparison ==
    [][ /\ IsMainStep => UnsignedCompare(regs_arr, MainFetch, regs_arr')
        /\ IsRunStep => UnsignedCompare(cregs_arr, RunFetch, cregs_arr')
      ]_vars

\* both simulators have just run slti $3, $2, -1 with 1 in register 2 and
\* hold 1 in register 3, where a signed comparison gives 0
C20_Witness ==
    /\ last.main.instruction = EncI(7, 2, 3, 127)
    /\ last.main.regs[2] = 1
    /\ last.main.regs[3] = 0
    /\ regs_arr[3] = 1
    /\ last.run = last.main
    /\ cregs_arr[3] = 1
    /\ steps.run = steps.main

\* ------------------------------------------------------------------------
\* Specification: both simulators on programs of branches, taken and not
\* taken, forward, backward and to their own address, below and above 8191
\* ------------------------------------------------------------------------
BranchPool ==
    { EncI(4, 0, 1, 2),     \* lw   $1, 2($0)
      EncR(1, 0, 0, 8),     \* jr   $1
      EncI(6, 0, 0, 2),     \* jeq  $0, $0, 2
      EncI(6, 0, 0, 127),   \* jeq  $0, $0, -1     to its own address
      EncI(6, 0, 1, 1),     \* jeq  $0, $1, 1
      EncI(6, 1, 1, 126),   \* jeq  $1, $1, -2     one address back
      EncI(1, 0, 1, 1),     \* addi $1, $0, 1
      EncJ(2, 0) }          \* j    0

BranchInit == InitWith(Images(BranchPool, MaxBranchLen), EngineConfigs)

BranchSpec == BranchInit /\ [][Next]_vars

\* what an iteration that fetched jeq made of the pc p, and that it left
\* the registers and memory alone and the loop running
BranchStep(p, regs, mem, w, p2, regs2, mem2, running) ==
    w \div 8192 = 6 =>
        /\ p2 = IF regs[(w \div 1024) % 8] = regs[(w \div 128) % 8]
                THEN (p + 1 + Immediate(w)) % 65536
                ELSE (p + 1) % 65536
        /\ regs2 = regs
        /\ mem2 = mem
        /\ running

\* ------------------------------------------------------------------------
\* C21: jeq leaves the pc at (pc + 1 + sign_extend(imm7)) mod 65536 if
\* reg[rs] = reg[rt] and at (pc + 1) mod 65536 if not, counted from the pc
\* as it stands and not from the fetch index; it changes no register and
\* no word of memory and never halts, not even when it branches to its own
\* address.  Both simulators.
\* ------------------------------------------------------------------------
C21_BranchOnEqual ==
    [][ /\ IsMainStep =>
              BranchStep(pc, regs_arr, memory_arr, MainFetch, pc', regs_arr', memory_arr',
                         ~halt')
        /\ IsRunStep =>
              BranchStep(cpc, cregs_arr, cmemory_arr, RunFetch, cpc', cregs_arr',
                         cmemory_arr', cstate' = "running")
      ]_vars

\* both simulators have twice and more branched to the address of the
\* branch itself and are running
C21_Witness ==
    /\ last.main.instruction = EncI(6, 0, 0, 127)
    /\ last.main.pc = pc
    /\ steps.main >= pc + 2
    /\ ~halt
    /\ last.run = last.main
    /\ cpc = pc
    /\ steps.run = steps.main
    /\ cstate = "running"

\* the levels of the configuration
Levels == 1..(Len(parts) \div 3)

\* the name a level is logged under
NameOf(level) == IF level = 1 THEN "L1" ELSE "L2"

\* every level of a cache has the rows of its configuration, each of as
\* many blocks as the associativity
FixedShape(cache) ==
    /\ Len(cache.levels_vec) = Len(parts) \div 3
    /\ \A level \in Levels :
          /\ Len(cache.levels_vec[level].rows_vec) = RowCount(level)
          /\ \A row \in 0..(RowCount(level) - 1) :
                Len(cache.levels_vec[level].rows_vec[row + 1].blocks_vec) = AssocOf(level)

\* ------------------------------------------------------------------------
\* C22: every row of every level holds as many blocks as the associativity
\* of the level and every level as many rows as it was built with, in
\* every state; a call of cache_func leaves the tag of its address in the
\* last block of its row in every level it probes and every other row of
\* that level as it was.
\* ------------------------------------------------------------------------
C22_RowsKeepTheirShape ==
    [][ /\ FixedShape(a_cache)
        /\ FixedShape(a_cache')
        /\ IsCall =>
              \A level \in Levels :
                  LET a == last'.call.address
                      probed == \E i \in 1..Len(NewLines) :
                                    NewLines[i].cache_name = NameOf(level)
                      tags == RowTags(a_cache', level, RowNum(a, level))
                  IN  probed =>
                          /\ tags[Len(tags)] = TagNum(a, level)
                          /\ \A r \in 0..(RowCount(level) - 1) :
                                r # RowNum(a, level) =>
                                    RowTags(a_cache', level, r) = RowTags(a_cache, level, r)
      ]_vars

\* a call has probed both levels, each of which holds a tag of an earlier
\* call in another row or block
C22_Witness ==
    /\ Len(parts) = 6
    /\ Len(log) >= 4
    /\ log[Len(log)].cache_name = "L2"
    /\ log[Len(log)].addr = last.call.address
    /\ \E r \in 0..(RowCount(2) - 1) :
          /\ r # RowNum(last.call.address, 2)
          /\ EmptyTag \notin TagSet(RowTags(a_cache, 2, r))
    /\ RowTags(a_cache, 1, RowNum(last.call.address, 1))[1] # EmptyTag

\* ------------------------------------------------------------------------
\* C23: under a valid geometry the tag of every address of 0..8191 is at
\* most 8191 and so never the 65535 of an empty block; a load of a block
\* that no earlier call has brought to a level is logged MISS by that
\* level, whatever empty blocks its row holds.
\* ------------------------------------------------------------------------
C23_EmptySlotNeverHits ==
    ValidConfig(parts) =>
        \A level \in Levels :
            LET lines == LevelLog(NameOf(level))
                bs == a_cache.levels_vec[level].blocksize
                rows == Len(a_cache.levels_vec[level].rows_vec)
            IN  /\ \A b \in 0..8191 :
                      /\ TagOf(b, bs, rows) <= 8191
                      /\ TagOf(b, bs, rows) # 65535
                /\ \A k \in 1..Len(lines) :
                      ( /\ lines[k].status # "SW"
                        /\ \A j \in 1..(k - 1) :
                              BlockId(lines[j].addr, level) # BlockId(lines[k].addr, level) )
                      => lines[k].status = "MISS"

\* two loads of different blocks have each missed in both levels, the
\* second in a row of L2 that still holds an empty block
C23_Witness ==
    /\ Len(parts) = 6
    /\ Len(log) = 4
    /\ \A i \in 1..4 : log[i].status = "MISS"
    /\ log[1].addr # log[3].addr
    /\ log[2].row = log[4].row
    /\ EmptyTag \in TagSet(RowTags(a_cache, 2, log[4].row))

\* ------------------------------------------------------------------------
\* Specification: calls of cache_func for three blocks of one row
\* ------------------------------------------------------------------------
\* three addresses that fall into row 0 with three tags, in L1 and in L2,
\* under both configurations below
RecencyAddresses == {0, 8, 16}

RecencyConfigs ==
    { <<16, 2, 4>>,             \* one level: 2 rows of 2 blocks of 4 words
      <<4, 2, 2, 16, 1, 4>> }   \* L1: 1 row of 2 blocks; L2: 4 rows of 1 block

RecencyInit == InitWith({<<>>}, RecencyConfigs)

RecencyAccess == CacheAccess(MaxAccesses, RecencyAddresses)

RecencyNext == RecencyAccess

RecencySpec == RecencyInit /\ [][RecencyNext]_vars

RECURSIVE Recency(_, _, _)
\* the distinct tags the first k of the calls logged in lines brought to a
\* row of L1, the one of the latest call first
Recency(lines, row, k) ==
    IF k = 0 THEN <<>>
    ELSE LET before == Recency(lines, row, k - 1)
             t == TagNum(lines[k].addr, 1)
         IN  IF RowNum(lines[k].addr, 1) = row
             THEN <<t>> \o SelectSeq(before, LAMBDA x : x # t)
             ELSE before

\* the first of them, as many as the associativity at most
MostRecent(lines, row, k) ==
    LET all == Recency(lines, row, k)
    IN  SubSeq(all, 1, IF Len(all) < AssocOf(1) THEN Len(all) ELSE AssocOf(1))

\* the tags of the blocks of a row of L1 that are not empty, the last
\* block first
NewestFirst(row) ==
    LET tags == SelectSeq(RowTags(a_cache, 1, row), LAMBDA x : x # EmptyTag)
    IN  [i \in 1..Len(tags) |-> tags[Len(tags) + 1 - i]]

\* ------------------------------------------------------------------------
\* C24: the blocks of a row of L1 that are not empty, read from the last
\* to the first, are the distinct tags most recently brought to the row by
\* loads and stores alike, the latest first, as many as the associativity
\* at most; and a load is logged HIT by L1 exactly when its tag was among
\* them before the call.  (The line of a call is the last line of L1 in
\* the state the call leaves, and lines once logged stay as they are.)
\* ------------------------------------------------------------------------
C24_HitIffAmongMostRecent ==
    LET lines == L1Log
        n == Len(lines)
    IN  /\ \A row \in 0..(RowCount(1) - 1) : NewestFirst(row) = MostRecent(lines, row, n)
        /\ (n > 0 /\ lines[n].status # "SW") =>
              ( lines[n].status = "HIT" <=>
                    TagNum(lines[n].addr, 1)
                        \in TagSet(MostRecent(lines, RowNum(lines[n].addr, 1), n - 1)) )

\* in a row of two blocks a store of A, a load of B, a load of A that
\* hits on the older block, a call for C and a load of B that misses
C24_Witness ==
    /\ AssocOf(1) = 2
    /\ Len(L1Log) = 5
    /\ \A k \in 2..5 : RowNum(L1Log[k].addr, 1) = RowNum(L1Log[1].addr, 1)
    /\ L1Log[1].status = "SW"
    /\ L1Log[2].status = "MISS"
    /\ L1Log[3].status = "HIT"
    /\ TagNum(L1Log[3].addr, 1) = TagNum(L1Log[1].addr, 1)
    /\ TagNum(L1Log[4].addr, 1) \notin {TagNum(L1Log[1].addr, 1), TagNum(L1Log[2].addr, 1)}
    /\ L1Log[5].status = "MISS"
    /\ TagNum(L1Log[5].addr, 1) = TagNum(L1Log[2].addr, 1)

\* in a row of tags no empty block comes after a block that is not empty
EmptyBlocksFirst(tags) ==
    \A i \in 1..Len(tags) : \A j \in (i + 1)..Len(tags) :
        tags[j] = EmptyTag => tags[i] = EmptyTag

\* every row of every level of a cache is such a row
EmptyBlocksLead(cache) ==
    \A level \in Levels : \A row \in 0..(RowCount(level) - 1) :
        EmptyBlocksFirst(RowTags(cache, level, row))

\* ------------------------------------------------------------------------
\* C25: in every row of every level the empty blocks come first, in every
\* state; so a call whose row still holds an empty block leaves every tag
\* the row held in the row, whether it finds its own tag or erases the
\* block at index 0.
\* ------------------------------------------------------------------------
C25_EmptyBlocksAtHead ==
    [][ /\ EmptyBlocksLead(a_cache)
        /\ EmptyBlocksLead(a_cache')
        /\ IsCall =>
              \A level \in Levels :
                  LET row == RowNum(last'.call.address, level)
                      before == TagSet(RowTags(a_cache, level, row))
                      after == TagSet(RowTags(a_cache', level, row))
                  IN  EmptyTag \in before => (before \ {EmptyTag}) \subseteq after
      ]_vars

\* in a row of two blocks that held one tag behind an empty block, a call
\* for another tag has erased the empty block and kept the tag
C25_Witness ==
    /\ AssocOf(1) = 2
    /\ Len(L1Log) = 2
    /\ RowNum(L1Log[1].addr, 1) = RowNum(L1Log[2].addr, 1)
    /\ TagNum(L1Log[1].addr, 1) # TagNum(L1Log[2].addr, 1)
    /\ RowTags(a_cache, 1, RowNum(L1Log[1].addr, 1))
           = <<TagNum(L1Log[1].addr, 1), TagNum(L1Log[2].addr, 1)>>

\* ------------------------------------------------------------------------
\* C26: in every state no row of any level holds a tag other than the
\* empty one in two blocks, so the block the scan of a row stops at is the
\* only block with the tag.
\* ------------------------------------------------------------------------
C26_NoDuplicateTags ==
    \A level \in Levels : \A row \in 0..(RowCount(level) - 1) :
        LET tags == RowTags(a_cache, level, row)
        IN  \A i \in 1..Len(tags) :
                tags[i] # EmptyTag =>
                    {j \in 1..Len(tags) : tags[j] = tags[i]} = {i}

\* a tag has been brought to a row of two blocks twice, with another tag
\* in between, and the row holds the two tags once each
C26_Witness ==
    /\ AssocOf(1) = 2
    /\ Len(L1Log) = 3
    /\ L1Log[3].addr # L1Log[1].addr
    /\ TagNum(L1Log[3].addr, 1) = TagNum(L1Log[1].addr, 1)
    /\ RowNum(L1Log[3].addr, 1) = RowNum(L1Log[1].addr, 1)
    /\ RowNum(L1Log[2].addr, 1) = RowNum(L1Log[1].addr, 1)
    /\ TagNum(L1Log[2].addr, 1) # TagNum(L1Log[1].addr, 1)
    /\ RowTags(a_cache, 1, RowNum(L1Log[1].addr, 1))
           = <<TagNum(L1Log[2].addr, 1), TagNum(L1Log[1].addr, 1)>>

====
